---- MODULE Spec2Model ----
(***************************************************************************)
(* State machine of WSProbingShell (src/ws_probing_shell.py): the primary  *)
(* connection and its saved parameters, the exchanges collection, the bulk *)
(* exchange loop, the message-length probe, the connection probe and the   *)
(* channel probe, over a transport whose handshake, send, recv and close   *)
(* may succeed or raise; the payload combinator, the analysis and the      *)
(* search of the exchanges, the target of the channel probe and the port   *)
(* scan are followed in specifications of their own, as are the engine     *)
(* against an endpoint that answers every message once and in order, and   *)
(* the probes beside a primary connection with recorded exchanges.         *)
(***************************************************************************)
EXTENDS Integers, Sequences, FiniteSets, TLC

VARIABLES
    client,       \* self.__client: NoClient or the handle create_connection returned
    params,       \* self.__client_connection_parameters: NoParams or the saved line
    exchanges,    \* self.__exchanges: exchange number -> exchange
    conns,        \* transport: conns[h] is "open" or "closed" for every handle ever returned
    limit,        \* transport: messages of this size or more cannot be sent (NoLimit: any send may fail)
    pc,           \* "idle" (at the prompt), "sending" (in __send_messages), "probing" (in the length loop),
                  \* "growing" / "releasing" (in the two loops of the connection probe),
                  \* "exited" (an exception left cmdloop)
    messages,     \* messages_list of the current / last bulk run
    idx,          \* __send_messages: idx
    error_count,  \* __send_messages: error_count
    pidx,         \* do_probe_request_length_limit: idx of the for loop
    chk,          \* history: what the __check_connection_availability call of the last step did
                  \* and, in __send_messages, the calls of that iteration in their order
    last,         \* history: the command that ran last and what it printed
    runlog,       \* history: per message of the current / last bulk run, what the transport did
    held,         \* do_probe_request_connection_limit: connections_references_list, each
                  \* entry "open", "closed" (close() returned) or "failed" (close() raised)
    cidx,         \* do_probe_request_connection_limit: idx of the growth loop
    ridx,         \* do_probe_request_connection_limit: position of the release loop
    nrel,         \* do_probe_request_connection_limit: connection_not_released_count
    plog,         \* history: create_connection calls of the current / last probe, how its release ended
    test,         \* do_probe_connection_channels_supported: test_connection and what the transport did
    out,          \* what the last analysis, search or combination computed; the ports
                  \* and the attempts of the current / last scan
    inbox         \* transport: the answers the endpoint sent on the primary connection
                  \* that recv() has not returned yet (used with the answering endpoint)

\* the state of the connection and channel probes and of the pure computations
probeVars == <<held, cidx, ridx, nrel, plog, test, out>>

vars == <<client, params, exchanges, conns, limit, pc, messages, idx,
          error_count, pidx, chk, last, runlog, held, cidx, ridx, nrel, plog, test, out,
          inbox>>

---------------------------------------------------------------------------
(* Bounds of the model *)

MaxHandles == 2          \* handshakes the endpoint accepts in one behaviour
MaxRun == 2              \* most messages one replay or fuzz run sends
MaxFiles == 2            \* most payload files given to fuzz
MaxProbingLimit == 40    \* max_probing_limit, scaled down from 1000000000
MaxConnectionLimit == 4  \* max_probing_limit of the connection probe, scaled down from 1000000000
MaxCombineFiles == 3     \* most payload files given to __build_fuzzing_dicts on its own
MaxAnalyze == 3          \* most exchanges recorded when do_analyze runs on its own
MaxSearched == 2         \* most exchanges recorded when do_search runs
MaxWords == 2            \* most words given to search -w
MaxPath == 2             \* most pieces after the host of an endpoint
MaxPort == 3             \* highest port number a scan names
MaxPending == 6          \* most answers left unread on the primary connection

(* Program constants *)

Hello == "hello"               \* the message do_connect sends to validate the connection
KeepAlive == "TestAliveState"  \* the message the liveness check sends
ProbeStart == 10         \* range(10, max_probing_limit, 10): start
ProbeStep == 10          \* range(10, max_probing_limit, 10): step
GrowthStart == 1         \* range(1, max_probing_limit): start

NoClient == 0            \* None in self.__client
NoLimit == 0             \* the transport has no size limit
NoParams == "<None>"     \* None in self.__client_connection_parameters
Absent == "<absent>"     \* None returned by recv()

Lines == {"-t ws://h/a", "-t wss://h/b"}   \* connect lines naming an endpoint
BlankLine == ""                            \* a connect line without -t
Messages == {"ping"}                       \* contents of the message file
Templates == {<<"id=", "$payload_1", "$payload_2">>}  \* template files, cut at the placeholders
FileContents == {<<>>, <<"x">>, <<"x", "y">>}          \* payload files: their lines, newline stripped
Responses == {"pong"}                      \* texts the endpoint answers with
Times == {20}                              \* response times, in 1/100 s

ClosedText == "socket is already closed."                  \* str(WebSocketConnectionClosedException)
TransportText == "transport error"                         \* str() of another WebSocketException / IOError
AttributeText == "'NoneType' object has no attribute 'send'" \* str(AttributeError) of None.send

---------------------------------------------------------------------------
(* The transport (websocket.create_connection and the handle it returns) *)

\* create_connection(...): returns a handle or raises
HandshakeOutcomes(cs) ==
    IF Len(cs) < MaxHandles THEN {"ok", "err"} ELSE {"err"}

\* handle.send(msg) with len(msg) = size on a handle in state st:
\* "ok", or raises WebSocketConnectionClosedException ("closed"),
\* or raises another WebSocketException / IOError ("err")
SendOutcomes(st, size) ==
    IF st = "closed" THEN {"closed"}
    ELSE IF limit = NoLimit THEN {"ok", "closed", "err"}
    ELSE IF size >= limit THEN {"closed", "err"}
    ELSE {"ok"}

SkipIO == [send |-> "skip", recv |-> "skip", text |-> ""]

\* handle.send(msg) followed by handle.recv(): recv is reached only after a
\* send that returned, and returns a text, returns None ("absent") or raises
IOOutcomes(st, size) ==
    {[send |-> s, recv |-> "skip", text |-> ""] : s \in SendOutcomes(st, size) \ {"ok"}}
    \cup
    (IF "ok" \in SendOutcomes(st, size)
     THEN {[send |-> "ok", recv |-> k, text |-> ""] : k \in {"absent", "closed", "err"}}
          \cup {[send |-> "ok", recv |-> "text", text |-> t] : t \in Responses}
     ELSE {})

\* the exception a send + recv raised: "closed", "err", or "no"
Raised(o) ==
    IF o.send \in {"closed", "err"} THEN o.send
    ELSE IF o.recv \in {"closed", "err"} THEN o.recv
    ELSE "no"

\* str(err) of a transport exception
ErrText(e) == IF e = "closed" THEN ClosedText ELSE TransportText

\* the transport closes the socket of a handle when it reports it closed
MarkClosed(cs, h) == [cs EXCEPT ![h] = "closed"]

\* handle.close(): returns ("ok"), or raises with the socket left open or closed
CloseOutcomes(st) ==
    IF st = "closed" THEN {"ok"} ELSE {"ok", "err_open", "err_closed"}

---------------------------------------------------------------------------
(* do_connect *)

\* line is None or line.strip() == "" or "-t" not in line
MissingParameters(line) == line = NoParams \/ line = BlankLine \/ line \notin Lines

\* do_connect(line) from client c, saved parameters p and handles cs, when the
\* handshake ends hs and the "hello" send + recv ends o
DoConnect(c, p, cs, line, hs, o) ==
    IF MissingParameters(line)
    THEN [client |-> c, params |-> p, conns |-> cs, result |-> "missing"]
    ELSE IF hs # "ok"
    THEN [client |-> c, params |-> p, conns |-> cs, result |-> "failed"]
    ELSE LET h == Len(cs) + 1
             cs1 == Append(cs, IF Raised(o) = "closed" THEN "closed" ELSE "open")
         IN  IF Raised(o) # "no"
             THEN [client |-> h, params |-> p, conns |-> cs1, result |-> "failed"]
             ELSE IF o.recv = "absent"
             THEN [client |-> h, params |-> p, conns |-> cs1, result |-> "unconfirmed"]
             ELSE [client |-> h, params |-> line, conns |-> cs1, result |-> "connected"]

\* every way do_connect(line) can end
ConnectResults(c, p, cs, line) ==
    IF MissingParameters(line)
    THEN {DoConnect(c, p, cs, line, "skip", SkipIO)}
    ELSE UNION {
           IF hs = "ok"
           THEN {DoConnect(c, p, cs, line, hs, o) : o \in IOOutcomes("open", Len(Hello))}
           ELSE {DoConnect(c, p, cs, line, hs, SkipIO)}
         : hs \in HandshakeOutcomes(cs)}

---------------------------------------------------------------------------
(* __check_connection_availability *)

NoChk == [site |-> "none", had |-> FALSE, saved |-> FALSE, probe |-> "none",
          attempted |-> FALSE, connres |-> "none", raised |-> "no"]

\* the call of do_connect(self.__client_connection_parameters) inside the check;
\* probe is what the keep-alive reported before it
Reopen(c, p, cs, probe, r) ==
    [client |-> r.client, params |-> r.params, conns |-> r.conns, raised |-> "no",
     probe |-> probe, attempted |-> r.result # "missing", connres |-> r.result]

\* every way __check_connection_availability() can end: the engine state it
\* leaves, the exception it raises ("no": it returns), what the keep-alive
\* reported, whether a handshake was attempted and how the connect ended
CheckResults(c, p, cs) ==
    IF c = NoClient
    THEN {Reopen(c, p, cs, "none", r) : r \in ConnectResults(c, p, cs, p)}
    ELSE UNION {
           IF Raised(ka) = "closed"
           THEN {Reopen(c, p, cs, "closed", r) : r \in ConnectResults(c, p, MarkClosed(cs, c), p)}
           ELSE {[client |-> c, params |-> p, conns |-> cs, raised |-> Raised(ka),
                  probe |-> IF Raised(ka) = "err" THEN "err" ELSE "alive",
                  attempted |-> FALSE, connres |-> "none"]}
         : ka \in IOOutcomes(cs[c], Len(KeepAlive))}

\* the history record of a check made at site from client c and parameters p
ChkOf(site, c, p, r) ==
    [site |-> site, had |-> c # NoClient, saved |-> p # NoParams, probe |-> r.probe,
     attempted |-> r.attempted, connres |-> r.connres, raised |-> r.raised]

---------------------------------------------------------------------------
(* The exchanges collection and __send_messages *)

EmptyExchanges == <<>>

\* a clear() that is left out
KeepExchanges(e) == e

\* self.__exchanges.clear()
ClearExchanges(e) == EmptyExchanges

\* self.__exchanges[i] = x
Put(e, i, x) == [k \in DOMAIN e \cup {i} |-> IF k = i THEN x ELSE e[k]]

\* the exchange of a message answered with resp, after lines 631 and 637-639
OkExchange(msg, resp, t) ==
    [REQUEST |-> msg, RESPONSE |-> resp, IS_ERROR |-> FALSE, RESPONSE_TIME |-> t,
     REQUEST_LENGTH |-> Len(msg), RESPONSE_LENGTH |-> Len(resp)]

\* the exchange of a message whose iteration raised err, after lines 634 and 637-639
ErrorExchange(msg, text, t) ==
    [REQUEST |-> msg, RESPONSE |-> text, IS_ERROR |-> TRUE, RESPONSE_TIME |-> t,
     REQUEST_LENGTH |-> Len(msg), RESPONSE_LENGTH |-> Len(text)]

\* the exchange of a message whose recv() returned None: line 639 raises
\* TypeError on len(None) and RESPONSE_LENGTH is never set
PartialExchange(msg, t) ==
    [REQUEST |-> msg, RESPONSE |-> Absent, IS_ERROR |-> FALSE, RESPONSE_TIME |-> t,
     REQUEST_LENGTH |-> Len(msg)]

\* an except branch that does not count
CountNothing(n) == n

\* error_count += 1
CountError(n) == n + 1

\* idx += 1 at the end of an iteration
NextIdx(i) == i + 1

\* [message] * repetition_count
Repeat(m, n) == [k \in 1..n |-> m]

\* the calls a send + recv that ended o made on the handle
CallsOf(o) ==
    (IF o.send # "skip" THEN <<"send">> ELSE <<>>) \o (IF o.recv # "skip" THEN <<"recv">> ELSE <<>>)

\* every way the try block of one iteration (lines 628-630) can end after the
\* check ended r: kind "ok" (a text was received), "absent" (recv returned
\* None) or "error" (the check, send or recv raised: text is str(err))
\* calls lists the calls made on self.__client for the message itself
MessageResults(r, msg) ==
    IF r.raised # "no"
    THEN {[conns |-> r.conns, kind |-> "error", text |-> ErrText(r.raised), calls |-> <<>>]}
    ELSE IF r.client = NoClient
    THEN {[conns |-> r.conns, kind |-> "error", text |-> AttributeText, calls |-> <<>>]}
    ELSE {IF Raised(o) # "no"
          THEN [conns |-> IF Raised(o) = "closed" THEN MarkClosed(r.conns, r.client) ELSE r.conns,
                kind |-> "error", text |-> ErrText(Raised(o)), calls |-> CallsOf(o)]
          ELSE IF o.recv = "absent"
          THEN [conns |-> r.conns, kind |-> "absent", text |-> Absent, calls |-> CallsOf(o)]
          ELSE [conns |-> r.conns, kind |-> "ok", text |-> o.text, calls |-> CallsOf(o)]
         : o \in IOOutcomes(r.conns[r.client], Len(msg))}

\* a try block that sends the message before it checks the connection
SendThenCheck(check, calls) == calls \o check

\* lines 628-630: the check, then the send and the recv of the message
CheckThenSend(check, calls) == check \o calls

\* the exchange lines 631-639 store for a message that ended m
ExchangeOf(msg, m, t) ==
    IF m.kind = "error" THEN ErrorExchange(msg, m.text, t)
    ELSE IF m.kind = "absent" THEN PartialExchange(msg, t)
    ELSE OkExchange(msg, m.text, t)

---------------------------------------------------------------------------
(* __build_fuzzing_dicts and the message list of do_fuzz *)

\* "payload_%s" % current_position
PlaceholderKey(position) == "payload_" \o ToString(position)

\* nested loops the other way round: for each payload, for each combination
MultiplyByPayload(combinations, payloads, key) ==
    [n \in 1..(Len(combinations) * Len(payloads)) |->
        LET i == ((n - 1) % Len(combinations)) + 1
            j == ((n - 1) \div Len(combinations)) + 1
        IN  combinations[i] @@ (key :> payloads[j])]

\* lines 677-682: for each combination, for each payload, the dict
\* {key: payload} updated with the combination
Multiply(combinations, payloads, key) ==
    [n \in 1..(Len(combinations) * Len(payloads)) |->
        LET i == ((n - 1) \div Len(payloads)) + 1
            j == ((n - 1) % Len(payloads)) + 1
        IN  combinations[i] @@ (key :> payloads[j])]

\* lines 673-674: one dict per payload of the file
Seed(payloads, key) == [n \in 1..Len(payloads) |-> (key :> payloads[n])]

RECURSIVE BuildFuzzingDicts(_, _, _)
\* __build_fuzzing_dicts(payload_files_list, payload_combinations, current_position),
\* each file given by its lines
BuildFuzzingDicts(files, combinations, position) ==
    IF Len(files) > 0
    THEN IF Len(combinations) = 0
         THEN BuildFuzzingDicts(Tail(files),
                                Seed(Head(files), PlaceholderKey(position)), position + 1)
         ELSE BuildFuzzingDicts(Tail(files),
                                Multiply(combinations, Head(files), PlaceholderKey(position)),
                                position + 1)
    ELSE combinations

RECURSIVE Join(_)
\* the text of a sequence of pieces
Join(pieces) == IF pieces = <<>> THEN "" ELSE Head(pieces) \o Join(Tail(pieces))

\* Template(message_template).safe_substitute(payload_dict): a placeholder
\* without a key in the dict is left as it is
SafeSubstitute(template, dict) ==
    Join([n \in 1..Len(template) |->
            IF \E k \in DOMAIN dict : template[n] = "$" \o k
            THEN dict[CHOOSE k \in DOMAIN dict : template[n] = "$" \o k]
            ELSE template[n]])

\* lines 187-193: messages_list of do_fuzz
FuzzMessages(template, files) ==
    LET payloads == BuildFuzzingDicts(files, <<>>, 1)
    IN  [n \in 1..Len(payloads) |-> SafeSubstitute(template, payloads[n])]

\* the payload file lists the model gives to fuzz (nargs="+": at least one)
FileLists == UNION {[1..k -> FileContents] : k \in 1..MaxFiles}

\* the message lists do_fuzz builds from them, of at most MaxRun messages
FuzzMessageLists ==
    {msgs \in {FuzzMessages(template, files) : template \in Templates, files \in FileLists} :
        Len(msgs) <= MaxRun}

\* payload files and the template given to __build_fuzzing_dicts on its own
CombineContents == {<<>>, <<"x">>, <<"x", "y">>, <<"1", "2">>}
CombineTemplate == <<"$payload_1", "-", "$payload_2", "-", "$payload_3">>

\* payload_files_list: any number of files, none included
CombineFileLists == UNION {[1..k -> CombineContents] : k \in 0..MaxCombineFiles}

---------------------------------------------------------------------------
(* do_probe_request_length_limit *)

\* range(10, max_probing_limit, 10) still yields i
InRange(i) == i < MaxProbingLimit

\* a max_length taken from the failing step
FailingSize(i) == i

\* max_length = idx - 10
ConfirmedMax(i) == i - ProbeStep

\* lines 448-451: what the probe prints for max_length
LengthOutcome(max_length) == IF max_length > 0 THEN "identified" ELSE "undetermined"

---------------------------------------------------------------------------
(* do_probe_request_connection_limit and do_probe_connection_channels_supported *)

\* a probe that does not test the connection context
AnyContext(p) == FALSE

\* self.__client_connection_parameters is None
NoContext(p) == p = NoParams

\* create_connection(...) of a probe: returns a connection ("ok"), raises
\* WebSocketException / IOError ("err") or raises another exception ("other")
ProbeHandshakeOutcomes == {"ok", "err", "other"}

\* connection.close() in the release loop: returns ("ok"), raises IOError
\* ("ioerror") or raises another exception ("raised")
ReleaseOutcomes == {"ok", "ioerror", "raised"}

\* range(1, max_probing_limit) still yields i
InGrowthRange(i) == i < MaxConnectionLimit

\* max_connection = idx - 1
MaxConnection(i) == i - 1

\* lines 559-562: what the probe prints for max_connection
ConnectionOutcome(max_connection) ==
    IF max_connection > 0 THEN "identified" ELSE "undetermined"

\* a growth loop that closes the connection it has just opened
OpenedAndClosed(h) == Append(h, "closed")

\* connections_references_list.append(create_connection(...))
Opened(h) == Append(h, "open")

\* the "hello" send + recv on test_connection: the endpoint may also answer
\* with an empty text
TestIOOutcomes ==
    IOOutcomes("open", Len(Hello)) \cup {[send |-> "ok", recv |-> "text", text |-> ""]}

\* lines 499-509: what the channel probe prints when the handshake ended hs
\* and the send + recv ended o
ChannelObservation(hs, o) ==
    IF hs = "other" THEN "failed"
    ELSE IF hs = "err" THEN "unsupported"
    ELSE IF Raised(o) # "no" THEN "unsupported"
    ELSE IF o.recv = "absent" THEN "unresponsive"
    ELSE "supported"

---------------------------------------------------------------------------
(* do_analyze *)

\* response times (in 1/100 s) and responses of the exchanges do_analyze reads
AnalyzeTimes == {20, 90, 110, 250}
AnalyzeResponses == {"pong", "pang"}

\* the collections a run of up to MaxAnalyze answered messages leaves
RecordedExchanges ==
    UNION {[0..(n - 1) -> {OkExchange(m, r, t) :
                             m \in Messages, r \in AnalyzeResponses, t \in AnalyzeTimes}]
           : n \in 0..MaxAnalyze}

\* int(exchanges[idx]["RESPONSE_TIME"]): the whole seconds of a time in 1/100 s
IntTime(t) == t \div 100

\* hashlib.sha256(response.encode("utf-8")).hexdigest(), one digest per text
Digest(r) == <<"sha256", r>>

\* lines 226-228 / 239-241: idx i is added to the entry of key k, a new key
\* going after the keys already there (a dict keeps insertion order); an
\* entry is the key and the exchange numbers that line 230 / 242 print,
\* separated by spaces
GatherOne(rows, k, i) ==
    IF \E n \in DOMAIN rows : rows[n].key = k
    THEN [n \in DOMAIN rows |->
            IF rows[n].key = k THEN [rows[n] EXCEPT !.ids = Append(@, i)] ELSE rows[n]]
    ELSE Append(rows, [key |-> k, ids |-> <<i>>])

RECURSIVE Gather(_, _, _)
\* the for loop over range(0, total) from idx i on, keys[i + 1] being the key
\* of exchange i; then data_to_print in the order of the dict
Gather(keys, i, rows) ==
    IF i >= Len(keys) THEN rows
    ELSE Gather(keys, i + 1, GatherOne(rows, keys[i + 1], i))

\* lines 220-230: the rows of "Exchanges aggregated by response time"
TimingRows(e) ==
    Gather([n \in 1..Cardinality(DOMAIN e) |-> IntTime(e[n - 1].RESPONSE_TIME)], 0, <<>>)

\* lines 234-242: the rows of "Exchanges aggregated with identical response content"
ContentRows(e) ==
    Gather([n \in 1..Cardinality(DOMAIN e) |-> Digest(e[n - 1].RESPONSE)], 0, <<>>)

---------------------------------------------------------------------------
(* do_search: texts are given by their characters *)

\* responses of answered messages, str(err) of a failed one, words of -w
SearchResponses == {<<"A", "b", " ", "c">>, <<"a", "b">>}
SearchErrorTexts == {<<"a", "b", "!">>}
SearchWords == {<<"A", "b">>, <<"b", "%", "2", "0", "c">>}

\* args.words (nargs="+"): one word or more, in the order typed
WordLists == UNION {[1..k -> SearchWords] : k \in 1..MaxWords}

\* the collections a run of up to MaxSearched messages leaves: every message
\* answered or failed, or the run ended by a recv() that returned None
SearchedExchanges ==
    LET done == {OkExchange(m, r, t) : m \in Messages, r \in SearchResponses, t \in Times}
                \cup {ErrorExchange(m, x, t) : m \in Messages, x \in SearchErrorTexts, t \in Times}
        none == {PartialExchange(m, t) : m \in Messages, t \in Times}
    IN  UNION {[0..(n - 1) -> done] : n \in 0..MaxSearched}
        \cup UNION {{[i \in 0..(n - 1) |-> IF i = n - 1 THEN x ELSE f[i]] :
                        f \in [0..(n - 2) -> done], x \in none} : n \in 1..MaxSearched}

\* an exchange whose RESPONSE is None (line 639 never set its RESPONSE_LENGTH)
HasNone(e) == \E i \in DOMAIN e : "RESPONSE_LENGTH" \notin DOMAIN e[i]

\* str.lower() of one character
LowerChar(c) ==
    IF c = "A" THEN "a" ELSE IF c = "B" THEN "b" ELSE IF c = "C" THEN "c"
    ELSE IF c = "S" THEN "s" ELSE IF c = "W" THEN "w" ELSE c

\* str.lower()
Lower(text) == [n \in 1..Len(text) |-> LowerChar(text[n])]

\* the characters that %20 and %41 stand for
Decoded == (<<"2", "0">> :> " ") @@ (<<"4", "1">> :> "A")

RECURSIVE Unquote(_)
\* urllib.parse.unquote(word): a known escape is replaced, anything else is kept
Unquote(word) ==
    IF word = <<>> THEN <<>>
    ELSE IF Len(word) >= 3 /\ word[1] = "%" /\ <<word[2], word[3]>> \in DOMAIN Decoded
    THEN <<Decoded[<<word[2], word[3]>>]>> \o Unquote(SubSeq(word, 4, Len(word)))
    ELSE <<Head(word)>> \o Unquote(Tail(word))

\* searched_word in resp
Contains(resp, word) ==
    \E k \in 0..(Len(resp) - Len(word)) : SubSeq(resp, k + 1, k + Len(word)) = word

\* lines 400-407: does exchange i match the word
Matches(e, i, word, ci) ==
    IF ci THEN Contains(Lower(e[i].RESPONSE), Lower(Unquote(word)))
    ELSE Contains(e[i].RESPONSE, Unquote(word))

\* a search that goes on from the result of the search before
StaleFound(previous) == previous

\* found = {}
FreshFound(previous) == <<>>

RECURSIVE SearchFrom(_, _, _, _, _)
\* lines 399-410 from step p on: the loop over range(0, len(exchanges)) and,
\* inside it, the loop over args.words (step p is exchange p div len(words)
\* and word p mod len(words))
SearchFrom(e, words, ci, p, found) ==
    IF p >= Cardinality(DOMAIN e) * Len(words) THEN found
    ELSE LET i == p \div Len(words)
             word == words[(p % Len(words)) + 1]
         IN  SearchFrom(e, words, ci, p + 1,
                        IF Matches(e, i, word, ci) THEN GatherOne(found, word, i) ELSE found)

---------------------------------------------------------------------------
(* The endpoint the channel probe tests: endpoints are given by their characters *)

Ws == <<"w", "s", ":", "/", "/">>
Wss == <<"w", "s", "s", ":", "/", "/">>

\* the schemes a saved endpoint can start with (the handshake accepts either
\* scheme in any letter case), hosts, and pieces of what follows the host
Schemes == {Ws, Wss, <<"W", "S", "S", ":", "/", "/">>, <<"W", "s", ":", "/", "/">>}
Hosts == {<<"h">>}
PathPieces == {<<"/", "a">>, <<"/", "A">>, <<"?">> \o Ws \o <<"b">>, <<"?">> \o Wss \o <<"b">>}

RECURSIVE Flatten(_)
\* the pieces one after the other
Flatten(pieces) == IF pieces = <<>> THEN <<>> ELSE Head(pieces) \o Flatten(Tail(pieces))

\* args.endpoint of a saved connect line
Endpoints ==
    {scheme \o host \o Flatten(path) :
        scheme \in Schemes, host \in Hosts,
        path \in UNION {[1..k -> PathPieces] : k \in 0..MaxPath}}

\* text.startswith(prefix)
StartsWith(text, prefix) ==
    Len(text) >= Len(prefix) /\ SubSeq(text, 1, Len(prefix)) = prefix

RECURSIVE Remove(_, _)
\* text.replace(old, ""): every occurrence of old, from the left
Remove(text, old) ==
    IF Len(text) < Len(old) THEN text
    ELSE IF StartsWith(text, old) THEN Remove(SubSeq(text, Len(old) + 1, Len(text)), old)
    ELSE <<Head(text)>> \o Remove(Tail(text), old)

\* lines 491-497: target_endpoint
ChannelTarget(endpoint) ==
    LET target_endpoint == Lower(endpoint)
        protocol_to_test == IF StartsWith(target_endpoint, Wss) THEN Ws ELSE Wss
    IN  protocol_to_test \o Remove(Remove(target_endpoint, Wss), Ws)

---------------------------------------------------------------------------
(* do_scan *)

\* args.ports: one port, "p,q" or "start-end"
PortSpecs ==
    {[kind |-> "single", ports |-> <<p>>] : p \in 1..MaxPort}
    \cup {[kind |-> "set", ports |-> <<p, q>>] : p, q \in 1..MaxPort}
    \cup {[kind |-> "range", ports |-> <<p, q>>] : p, q \in 1..MaxPort}

\* range(start, end, 1)
Range(start, end) == [n \in 1..(end - start) |-> start + n - 1]

\* lines 338-347: ports_to_scan
PortsToScan(spec) ==
    IF spec.kind = "range" THEN Range(spec.ports[1], spec.ports[2]) ELSE spec.ports

\* line 350: protocols
Protocols == <<"ws://", "wss://">>

\* one attempt (lines 353-359): the connection is opened, reported and closed
\* ("closed"); it is opened and reported and close() raises a transport error
\* ("unclosed"); create_connection raises a transport error ("refused");
\* another exception is raised ("other")
ScanOutcomes == {"closed", "unclosed", "refused", "other"}

---------------------------------------------------------------------------
(* Reports *)

NoReport == [op |-> "none", outcome |-> "none", n |-> 0, errors |-> 0, max |-> 0,
             failedAt |-> 0, live |-> FALSE, prev |-> 0]

Report(op, outcome) == [NoReport EXCEPT !.op = op, !.outcome = outcome]

\* no probe has run: no create_connection call, no release loop
NoLog == [opens |-> 0, release |-> "none"]

\* test_connection before any channel probe
NoTest == [state |-> "none", hs |-> "skip", io |-> SkipIO]

\* nothing computed yet
NoOut == [op |-> "none"]

---------------------------------------------------------------------------
(* Commands *)

Init ==
    /\ client = NoClient
    /\ params = NoParams
    /\ exchanges = EmptyExchanges
    /\ conns = <<>>
    /\ limit = NoLimit
    /\ pc = "idle"
    /\ messages = <<>>
    /\ idx = 0
    /\ error_count = 0
    /\ pidx = 0
    /\ chk = NoChk
    /\ last = NoReport
    /\ runlog = <<>>
    /\ held = <<>>
    /\ cidx = 0
    /\ ridx = 0
    /\ nrel = 0
    /\ plog = NoLog
    /\ test = NoTest
    /\ out = NoOut
    /\ inbox = <<>>

\* do_connect(line), typed at the prompt
Connect ==
    /\ pc = "idle"
    /\ \E line \in Lines \cup {BlankLine} :
         \E r \in ConnectResults(client, params, conns, line) :
            /\ client' = r.client
            /\ params' = r.params
            /\ conns' = r.conns
            /\ last' = Report("connect", r.result)
    /\ chk' = NoChk
    /\ UNCHANGED <<exchanges, limit, pc, messages, idx, error_count, pidx, runlog>>
    /\ UNCHANGED probeVars
    /\ UNCHANGED inbox

\* a do_disconnect(line) that also forgets the saved connection parameters
DisconnectForgetting ==
    /\ pc = "idle"
    /\ IF client = NoClient
       THEN /\ last' = Report("disconnect", "nothing")
            /\ UNCHANGED <<client, conns>>
       ELSE \E co \in CloseOutcomes(conns[client]) :
              IF co = "ok"
              THEN /\ conns' = MarkClosed(conns, client)
                   /\ client' = NoClient
                   /\ last' = Report("disconnect", "closed")
              ELSE /\ conns' = IF co = "err_closed" THEN MarkClosed(conns, client) ELSE conns
                   /\ client' = client
                   /\ last' = Report("disconnect", "failed")
    /\ params' = NoParams
    /\ chk' = NoChk
    /\ UNCHANGED <<exchanges, limit, pc, messages, idx, error_count, pidx, runlog>>
    /\ UNCHANGED probeVars
    /\ UNCHANGED inbox

\* do_disconnect(line)
Disconnect ==
    /\ pc = "idle"
    /\ IF client = NoClient
       THEN /\ last' = Report("disconnect", "nothing")
            /\ UNCHANGED <<client, conns>>
       ELSE \E co \in CloseOutcomes(conns[client]) :
              IF co = "ok"
              THEN /\ conns' = MarkClosed(conns, client)
                   /\ client' = NoClient
                   /\ last' = Report("disconnect", "closed")
              ELSE /\ conns' = IF co = "err_closed" THEN MarkClosed(conns, client) ELSE conns
                   /\ client' = client
                   /\ last' = Report("disconnect", "failed")
    /\ chk' = NoChk
    /\ UNCHANGED <<params, exchanges, limit, pc, messages, idx, error_count, pidx, runlog>>
    /\ UNCHANGED probeVars
    /\ UNCHANGED inbox

\* do_replay(line) with self.__exchanges.clear() moved before the read of the
\* message file
ReplayStartClearingFirst ==
    /\ pc = "idle"
    /\ \E arg \in {"missing", "unreadable", "ok"} :
         IF arg = "missing"
         THEN /\ last' = Report("replay", "missing")
              /\ chk' = NoChk
              /\ UNCHANGED <<client, params, exchanges, conns, pc, messages, idx,
                             error_count, runlog>>
         ELSE IF arg = "unreadable"
         THEN /\ last' = Report("replay", "failed")
              /\ chk' = NoChk
              /\ exchanges' = ClearExchanges(exchanges)
              /\ UNCHANGED <<client, params, conns, pc, messages, idx, error_count, runlog>>
         ELSE \E r \in CheckResults(client, params, conns) :
                /\ chk' = ChkOf("replay", client, params, r)
                /\ client' = r.client
                /\ params' = r.params
                /\ conns' = r.conns
                /\ exchanges' = ClearExchanges(exchanges)
                /\ IF r.raised # "no"
                   THEN /\ last' = Report("replay", "failed")
                        /\ UNCHANGED <<pc, messages, idx, error_count, runlog>>
                   ELSE /\ \E m \in Messages, n \in 0..MaxRun : messages' = Repeat(m, n)
                        /\ idx' = 0
                        /\ error_count' = 0
                        /\ runlog' = <<>>
                        /\ pc' = "sending"
                        /\ last' = [Report("replay", "running") EXCEPT
                                      !.prev = Cardinality(DOMAIN exchanges)]
    /\ UNCHANGED <<limit, pidx>>
    /\ UNCHANGED probeVars
    /\ UNCHANGED inbox

\* do_replay(line) up to the call of __send_messages
ReplayStart ==
    /\ pc = "idle"
    /\ \E arg \in {"missing", "unreadable", "ok"} :
         IF arg # "ok"
         THEN /\ last' = Report("replay", IF arg = "missing" THEN "missing" ELSE "failed")
              /\ chk' = NoChk
              /\ UNCHANGED <<client, params, exchanges, conns, pc, messages, idx,
                             error_count, runlog>>
         ELSE \E r \in CheckResults(client, params, conns) :
                /\ chk' = ChkOf("replay", client, params, r)
                /\ client' = r.client
                /\ params' = r.params
                /\ conns' = r.conns
                /\ IF r.raised # "no"
                   THEN /\ last' = Report("replay", "failed")
                        /\ UNCHANGED <<exchanges, pc, messages, idx, error_count, runlog>>
                   ELSE /\ \E m \in Messages, n \in 0..MaxRun : messages' = Repeat(m, n)
                        /\ exchanges' = ClearExchanges(exchanges)
                        /\ idx' = 0
                        /\ error_count' = 0
                        /\ runlog' = <<>>
                        /\ pc' = "sending"
                        /\ last' = [Report("replay", "running") EXCEPT
                                      !.prev = Cardinality(DOMAIN exchanges)]
    /\ UNCHANGED <<limit, pidx>>
    /\ UNCHANGED probeVars
    /\ UNCHANGED inbox

\* do_fuzz(line) up to the call of __send_messages
FuzzStart ==
    /\ pc = "idle"
    /\ \E arg \in {"missing", "unreadable", "unreadable_payload", "ok"} :
         IF arg \in {"missing", "unreadable"}
         THEN /\ last' = Report("fuzz", IF arg = "missing" THEN "missing" ELSE "failed")
              /\ chk' = NoChk
              /\ UNCHANGED <<client, params, exchanges, conns, pc, messages, idx,
                             error_count, runlog>>
         ELSE \E r \in CheckResults(client, params, conns) :
                /\ chk' = ChkOf("fuzz", client, params, r)
                /\ client' = r.client
                /\ params' = r.params
                /\ conns' = r.conns
                /\ IF r.raised # "no" \/ arg = "unreadable_payload"
                   THEN /\ last' = Report("fuzz", "failed")
                        /\ UNCHANGED <<exchanges, pc, messages, idx, error_count, runlog>>
                   ELSE /\ \E msgs \in FuzzMessageLists : messages' = msgs
                        /\ exchanges' = ClearExchanges(exchanges)
                        /\ idx' = 0
                        /\ error_count' = 0
                        /\ runlog' = <<>>
                        /\ pc' = "sending"
                        /\ last' = [Report("fuzz", "running") EXCEPT
                                      !.prev = Cardinality(DOMAIN exchanges)]
    /\ UNCHANGED <<limit, pidx>>
    /\ UNCHANGED probeVars
    /\ UNCHANGED inbox

\* one iteration of the for loop of __send_messages
SendStep ==
    /\ pc = "sending"
    /\ idx < Len(messages)
    /\ \E r \in CheckResults(client, params, conns), t \in Times :
         \E m \in MessageResults(r, messages[idx + 1]) :
            /\ chk' = ChkOf("send_messages", client, params, r)
                          @@ [events |-> CheckThenSend(<<"check">>, m.calls), at |-> idx]
            /\ client' = r.client
            /\ params' = r.params
            /\ conns' = m.conns
            /\ exchanges' = Put(exchanges, idx, ExchangeOf(messages[idx + 1], m, t))
            /\ runlog' = Append(runlog, [kind |-> m.kind, text |-> m.text])
            /\ error_count' = IF m.kind = "error" THEN CountError(error_count) ELSE error_count
            /\ IF m.kind = "absent"
               THEN /\ pc' = "idle"
                    /\ idx' = idx
                    /\ last' = [last EXCEPT !.outcome = "aborted"]
               ELSE /\ pc' = "sending"
                    /\ idx' = NextIdx(idx)
                    /\ last' = last
    /\ UNCHANGED <<limit, messages, pidx>>
    /\ UNCHANGED probeVars
    /\ UNCHANGED inbox

\* the end of __send_messages (line 641) and of do_replay / do_fuzz
SendDone ==
    /\ pc = "sending"
    /\ idx >= Len(messages)
    /\ pc' = "idle"
    /\ last' = [last EXCEPT !.outcome = "sent", !.n = Len(messages), !.errors = error_count]
    /\ chk' = NoChk
    /\ UNCHANGED <<client, params, exchanges, conns, limit, messages, idx, error_count,
                   pidx, runlog>>
    /\ UNCHANGED probeVars
    /\ UNCHANGED inbox

\* do_probe_request_length_limit(line) up to the for loop
ProbeLengthStart ==
    /\ pc = "idle"
    /\ \E r \in CheckResults(client, params, conns) :
         /\ chk' = ChkOf("probe_length", client, params, r)
         /\ client' = r.client
         /\ params' = r.params
         /\ conns' = r.conns
         /\ IF r.raised # "no"
            THEN /\ last' = Report("probe_length", "failed")
                 /\ UNCHANGED <<pc, pidx>>
            ELSE /\ pc' = "probing"
                 /\ pidx' = ProbeStart
                 /\ last' = [Report("probe_length", "running") EXCEPT
                               !.live = IF r.client = NoClient THEN FALSE
                                        ELSE r.conns[r.client] = "open"]
    /\ UNCHANGED <<exchanges, limit, messages, idx, error_count, runlog>>
    /\ UNCHANGED probeVars
    /\ UNCHANGED inbox

\* one iteration of the for loop of the length probe, with lines 448-451 when
\* the loop ends
ProbeLengthStep ==
    /\ pc = "probing"
    /\ IF ~InRange(pidx)
       THEN /\ last' = [last EXCEPT !.outcome = LengthOutcome(0), !.max = 0]
            /\ pc' = "idle"
            /\ pidx' = 0
            /\ UNCHANGED conns
       ELSE IF client = NoClient
       THEN /\ last' = [last EXCEPT !.outcome = "failed"]
            /\ pc' = "idle"
            /\ pidx' = 0
            /\ UNCHANGED conns
       ELSE \E s \in SendOutcomes(conns[client], pidx) :
              IF s = "ok"
              THEN /\ pidx' = pidx + ProbeStep
                   /\ UNCHANGED <<pc, last, conns>>
              ELSE /\ last' = [last EXCEPT !.outcome = LengthOutcome(ConfirmedMax(pidx)),
                                           !.max = ConfirmedMax(pidx), !.failedAt = pidx]
                   /\ conns' = IF s = "closed" THEN MarkClosed(conns, client) ELSE conns
                   /\ pc' = "idle"
                   /\ pidx' = 0
    /\ chk' = NoChk
    /\ UNCHANGED <<client, params, exchanges, limit, messages, idx, error_count, runlog>>
    /\ UNCHANGED probeVars
    /\ UNCHANGED inbox

Next ==
    \/ Connect
    \/ Disconnect
    \/ ReplayStart
    \/ FuzzStart
    \/ SendStep
    \/ SendDone
    \/ ProbeLengthStart
    \/ ProbeLengthStep

Spec == Init /\ [][Next]_vars

\* the same engine over a transport that refuses exactly the messages of
\* limit characters or more
InitLen ==
    /\ client = NoClient
    /\ params = NoParams
    /\ exchanges = EmptyExchanges
    /\ conns = <<>>
    /\ limit \in 1..MaxProbingLimit
    /\ pc = "idle"
    /\ messages = <<>>
    /\ idx = 0
    /\ error_count = 0
    /\ pidx = 0
    /\ chk = NoChk
    /\ last = NoReport
    /\ runlog = <<>>
    /\ held = <<>>
    /\ cidx = 0
    /\ ridx = 0
    /\ nrel = 0
    /\ plog = NoLog
    /\ test = NoTest
    /\ out = NoOut
    /\ inbox = <<>>

NextLen ==
    \/ Connect
    \/ Disconnect
    \/ ProbeLengthStart
    \/ ProbeLengthStep

SpecLen == InitLen /\ [][NextLen]_vars

---------------------------------------------------------------------------
(* The connection probe and the channel probe *)

\* do_probe_request_connection_limit(line) up to the growth loop; the locals
\* of an earlier channel probe or scan are gone
ConnectionProbeStart ==
    /\ pc = "idle"
    /\ IF NoContext(params)
       THEN /\ last' = Report("probe_connections", "no_context")
            /\ cidx' = 0
            /\ UNCHANGED pc
       ELSE /\ last' = Report("probe_connections", "running")
            /\ cidx' = GrowthStart
            /\ pc' = "growing"
    /\ held' = <<>>
    /\ ridx' = 0
    /\ nrel' = 0
    /\ plog' = NoLog
    /\ chk' = NoChk
    /\ UNCHANGED <<client, params, exchanges, conns, limit, messages, idx, error_count,
                   pidx, runlog>>
    /\ test' = NoTest
    /\ out' = NoOut
    /\ UNCHANGED inbox

\* one iteration of the growth loop (lines 547-558), with lines 559-562 when
\* the loop ends
ConnectionProbeOpen ==
    /\ pc = "growing"
    /\ IF ~InGrowthRange(cidx)
       THEN /\ last' = [last EXCEPT !.outcome = ConnectionOutcome(0), !.max = 0]
            /\ pc' = "releasing"
            /\ ridx' = 1
            /\ UNCHANGED <<held, cidx, plog>>
       ELSE \E hs \in ProbeHandshakeOutcomes :
              /\ plog' = [plog EXCEPT !.opens = @ + 1]
              /\ IF hs = "ok"
                 THEN /\ held' = Opened(held)
                      /\ cidx' = cidx + 1
                      /\ UNCHANGED <<pc, last, ridx>>
                 ELSE IF hs = "err"
                 THEN /\ last' = [last EXCEPT
                                    !.outcome = ConnectionOutcome(MaxConnection(cidx)),
                                    !.max = MaxConnection(cidx), !.failedAt = cidx]
                      /\ pc' = "releasing"
                      /\ ridx' = 1
                      /\ UNCHANGED <<held, cidx>>
                 ELSE /\ last' = [last EXCEPT !.outcome = "failed", !.failedAt = cidx]
                      /\ pc' = "idle"
                      /\ UNCHANGED <<held, cidx, ridx>>
    /\ chk' = NoChk
    /\ UNCHANGED <<client, params, exchanges, conns, limit, messages, idx, error_count,
                   pidx, runlog, nrel, test, out>>
    /\ UNCHANGED inbox

\* one iteration of the release loop (lines 566-570), with line 571 when the
\* loop ends
ConnectionProbeRelease ==
    /\ pc = "releasing"
    /\ IF ridx > Len(held)
       THEN /\ last' = [last EXCEPT !.n = Len(held) - nrel, !.errors = nrel]
            /\ plog' = [plog EXCEPT !.release = "done"]
            /\ pc' = "idle"
            /\ UNCHANGED <<held, ridx, nrel>>
       ELSE \E co \in ReleaseOutcomes :
              IF co = "ok"
              THEN /\ held' = [held EXCEPT ![ridx] = "closed"]
                   /\ ridx' = ridx + 1
                   /\ UNCHANGED <<pc, last, nrel, plog>>
              ELSE IF co = "ioerror"
              THEN /\ held' = [held EXCEPT ![ridx] = "failed"]
                   /\ ridx' = ridx + 1
                   /\ nrel' = nrel + 1
                   /\ UNCHANGED <<pc, last, plog>>
              ELSE /\ held' = [held EXCEPT ![ridx] = "failed"]
                   /\ plog' = [plog EXCEPT !.release = "raised"]
                   /\ pc' = "idle"
                   /\ UNCHANGED <<last, ridx, nrel>>
    /\ chk' = NoChk
    /\ UNCHANGED <<client, params, exchanges, conns, limit, messages, idx, error_count,
                   pidx, runlog, cidx, test, out>>
    /\ UNCHANGED inbox

\* do_probe_connection_channels_supported(line); the locals of an earlier
\* connection probe or scan are gone
ChannelProbe ==
    /\ pc = "idle"
    /\ IF NoContext(params)
       THEN /\ last' = Report("probe_channels", "no_context")
            /\ plog' = NoLog
            /\ test' = NoTest
       ELSE \E hs \in ProbeHandshakeOutcomes :
              \E o \in (IF hs = "ok" THEN TestIOOutcomes ELSE {SkipIO}) :
                 /\ last' = Report("probe_channels", ChannelObservation(hs, o))
                 /\ plog' = [NoLog EXCEPT !.opens = 1]
                 /\ test' = [state |-> IF hs # "ok" THEN "none"
                                       ELSE IF Raised(o) = "closed" THEN "closed"
                                       ELSE "open",
                             hs |-> hs, io |-> o]
    /\ chk' = NoChk
    /\ UNCHANGED <<client, params, exchanges, conns, limit, pc, messages, idx,
                   error_count, pidx, runlog>>
    /\ held' = <<>>
    /\ cidx' = 0
    /\ ridx' = 0
    /\ nrel' = 0
    /\ out' = NoOut
    /\ UNCHANGED inbox

NextProbe ==
    \/ Connect
    \/ Disconnect
    \/ ConnectionProbeStart
    \/ ConnectionProbeOpen
    \/ ConnectionProbeRelease
    \/ ChannelProbe

SpecProbe == Init /\ [][NextProbe]_vars

---------------------------------------------------------------------------
(* __build_fuzzing_dicts and the substitution of do_fuzz, on their own *)

InitComb ==
    /\ client = NoClient
    /\ params = NoParams
    /\ exchanges = EmptyExchanges
    /\ conns = <<>>
    /\ limit = NoLimit
    /\ pc = "idle"
    /\ messages = <<>>
    /\ idx = 0
    /\ error_count = 0
    /\ pidx = 0
    /\ chk = NoChk
    /\ last = NoReport
    /\ runlog = <<>>
    /\ held = <<>>
    /\ cidx = 0
    /\ ridx = 0
    /\ nrel = 0
    /\ plog = NoLog
    /\ test = NoTest
    /\ \E files \in CombineFileLists :
         out = [op |-> "combine", files |-> files, done |-> FALSE,
                bindings |-> <<>>, messages |-> <<>>]
    /\ inbox = <<>>

\* lines 186-193: __build_fuzzing_dicts(payload_files_copy, [], 1) and one
\* safe_substitute per dict, in the order of the list
Combine ==
    /\ out.op = "combine"
    /\ ~out.done
    /\ out' = [out EXCEPT !.done = TRUE,
                          !.bindings = BuildFuzzingDicts(out.files, <<>>, 1),
                          !.messages = FuzzMessages(CombineTemplate, out.files)]
    /\ UNCHANGED <<client, params, exchanges, conns, limit, pc, messages, idx,
                   error_count, pidx, chk, last, runlog, held, cidx, ridx, nrel, plog, test>>
    /\ UNCHANGED inbox

NextComb == Combine

SpecComb == InitComb /\ [][NextComb]_vars

---------------------------------------------------------------------------
(* do_analyze on its own *)

InitAnalyze ==
    /\ client = NoClient
    /\ params = NoParams
    /\ exchanges \in RecordedExchanges
    /\ conns = <<>>
    /\ limit = NoLimit
    /\ pc = "idle"
    /\ messages = <<>>
    /\ idx = 0
    /\ error_count = 0
    /\ pidx = 0
    /\ chk = NoChk
    /\ last = NoReport
    /\ runlog = <<>>
    /\ held = <<>>
    /\ cidx = 0
    /\ ridx = 0
    /\ nrel = 0
    /\ plog = NoLog
    /\ test = NoTest
    /\ out = NoOut
    /\ inbox = <<>>

\* do_analyze(line)
Analyze ==
    /\ pc = "idle"
    /\ IF Cardinality(DOMAIN exchanges) = 0
       THEN /\ last' = Report("analyze", "empty")
            /\ out' = [op |-> "analyze", timing |-> <<>>, content |-> <<>>]
            /\ UNCHANGED pc
       ELSE IF HasNone(exchanges)
       THEN \* None.encode at line 238 raises AttributeError after the first
            \* table is printed; do_analyze has no try and cmdloop ends
            /\ last' = Report("analyze", "raised")
            /\ out' = [op |-> "analyze", timing |-> TimingRows(exchanges), content |-> <<>>]
            /\ pc' = "exited"
       ELSE /\ last' = Report("analyze", "printed")
            /\ out' = [op |-> "analyze", timing |-> TimingRows(exchanges),
                       content |-> ContentRows(exchanges)]
            /\ UNCHANGED pc
    /\ chk' = NoChk
    /\ UNCHANGED <<client, params, exchanges, conns, limit, messages, idx,
                   error_count, pidx, runlog, held, cidx, ridx, nrel, plog, test>>
    /\ UNCHANGED inbox

NextAnalyze == Analyze

SpecAnalyze == InitAnalyze /\ [][NextAnalyze]_vars

---------------------------------------------------------------------------
(* do_search and do_analyze over the exchanges of an earlier run *)

\* the engine not connected, or connected by a first connect
InitSearch ==
    /\ \E line \in Lines :
         \E s \in {[client |-> NoClient, params |-> NoParams, conns |-> <<>>],
                   [client |-> 1, params |-> line, conns |-> <<"open">>]} :
            /\ client = s.client
            /\ params = s.params
            /\ conns = s.conns
    /\ exchanges \in SearchedExchanges
    /\ limit = NoLimit
    /\ pc = "idle"
    /\ messages = <<>>
    /\ idx = 0
    /\ error_count = 0
    /\ pidx = 0
    /\ chk = NoChk
    /\ last = NoReport
    /\ runlog = <<>>
    /\ held = <<>>
    /\ cidx = 0
    /\ ridx = 0
    /\ nrel = 0
    /\ plog = NoLog
    /\ test = NoTest
    /\ out = NoOut
    /\ inbox = <<>>

\* do_search(line); the result is also written to exchanges_searching.json
Search ==
    /\ pc = "idle"
    /\ \E arg \in {"missing", "ok"}, words \in WordLists, ci \in BOOLEAN :
         LET previous == IF out.op = "search" THEN out.found ELSE <<>>
             result(outcome, found) ==
                 /\ last' = Report("search", outcome)
                 /\ out' = [op |-> "search", words |-> words, ci |-> ci, found |-> found,
                            again |-> /\ out.op = "search"
                                      /\ out.words = words
                                      /\ out.ci = ci
                                      /\ last.outcome = outcome]
         IN  IF arg = "missing" THEN result("missing", <<>>)
             ELSE IF Cardinality(DOMAIN exchanges) = 0 THEN result("empty", <<>>)
             ELSE IF HasNone(exchanges) THEN result("failed", <<>>)
             ELSE result("found", SearchFrom(exchanges, words, ci, 0, FreshFound(previous)))
    /\ chk' = NoChk
    /\ UNCHANGED <<client, params, exchanges, conns, limit, pc, messages, idx,
                   error_count, pidx, runlog, held, cidx, ridx, nrel, plog, test>>
    /\ UNCHANGED inbox

NextSearch ==
    \/ Analyze
    \/ Search

SpecSearch == InitSearch /\ [][NextSearch]_vars

---------------------------------------------------------------------------
(* The target of the channel probe, on its own *)

InitTarget ==
    /\ client = NoClient
    /\ params = NoParams
    /\ exchanges = EmptyExchanges
    /\ conns = <<>>
    /\ limit = NoLimit
    /\ pc = "idle"
    /\ messages = <<>>
    /\ idx = 0
    /\ error_count = 0
    /\ pidx = 0
    /\ chk = NoChk
    /\ last = NoReport
    /\ runlog = <<>>
    /\ held = <<>>
    /\ cidx = 0
    /\ ridx = 0
    /\ nrel = 0
    /\ plog = NoLog
    /\ test = NoTest
    /\ \E endpoint \in Endpoints :
         out = [op |-> "target", endpoint |-> endpoint, done |-> FALSE, target |-> <<>>]
    /\ inbox = <<>>

\* lines 491-497 of do_probe_connection_channels_supported
DeriveTarget ==
    /\ out.op = "target"
    /\ ~out.done
    /\ out' = [out EXCEPT !.done = TRUE, !.target = ChannelTarget(out.endpoint)]
    /\ UNCHANGED <<client, params, exchanges, conns, limit, pc, messages, idx,
                   error_count, pidx, chk, last, runlog, held, cidx, ridx, nrel, plog, test>>
    /\ UNCHANGED inbox

NextTarget == DeriveTarget

SpecTarget == InitTarget /\ [][NextTarget]_vars

---------------------------------------------------------------------------
(* The port scan *)

\* do_scan(line) up to the loops; the locals of an earlier probe are gone
ScanStart ==
    /\ pc = "idle"
    /\ \E arg \in {"missing", "ok"}, spec \in PortSpecs :
         IF arg = "missing"
         THEN /\ last' = Report("scan", "missing")
              /\ out' = [op |-> "scan", spec |-> spec, ports |-> <<>>, attempts |-> <<>>]
              /\ UNCHANGED pc
         ELSE /\ last' = Report("scan", "running")
              /\ out' = [op |-> "scan", spec |-> spec, ports |-> PortsToScan(spec),
                         attempts |-> <<>>]
              /\ pc' = "scanning"
    /\ chk' = NoChk
    /\ UNCHANGED <<client, params, exchanges, conns, limit, messages, idx, error_count,
                   pidx, runlog>>
    /\ held' = <<>>
    /\ cidx' = 0
    /\ ridx' = 0
    /\ nrel' = 0
    /\ plog' = NoLog
    /\ test' = NoTest
    /\ UNCHANGED inbox

\* one attempt of the loops over ports_to_scan and protocols (lines 351-359)
ScanStep ==
    /\ pc = "scanning"
    /\ LET n == Len(out.attempts)
       IN  IF n >= Len(out.ports) * Len(Protocols)
           THEN /\ last' = [last EXCEPT !.outcome = "done", !.n = n]
                /\ pc' = "idle"
                /\ UNCHANGED out
           ELSE \E o \in ScanOutcomes :
                  /\ out' = [out EXCEPT !.attempts =
                               Append(@, [port |-> out.ports[(n \div Len(Protocols)) + 1],
                                          protocol |-> Protocols[(n % Len(Protocols)) + 1],
                                          result |-> o])]
                  /\ IF o = "other"
                     THEN /\ last' = [last EXCEPT !.outcome = "failed", !.n = n + 1]
                          /\ pc' = "idle"
                     ELSE UNCHANGED <<last, pc>>
    /\ chk' = NoChk
    /\ UNCHANGED <<client, params, exchanges, conns, limit, messages, idx, error_count,
                   pidx, runlog, held, cidx, ridx, nrel, plog, test>>
    /\ UNCHANGED inbox

NextScan ==
    \/ ScanStart
    \/ ScanStep

SpecScan == Init /\ [][NextScan]_vars

---------------------------------------------------------------------------
(* The probes, the scan and disconnect beside a primary connection with    *)
(* recorded exchanges                                                      *)

\* the exchanges a replay of one message left
ReplayedExchanges ==
    {Put(EmptyExchanges, 0, OkExchange(m, r, t)) : m \in Messages, r \in Responses, t \in Times}

\* the line of the connect that opened the primary connection
FrameLine == "-t ws://h/a"

\* a fresh shell, a shell after a first connect that was accepted and not
\* validated, or a shell after a connect and a replay of one message
InitFrame ==
    /\ \E s \in {[client |-> NoClient, params |-> NoParams, conns |-> <<>>,
                  exchanges |-> EmptyExchanges],
                 [client |-> 1, params |-> NoParams, conns |-> <<"open">>,
                  exchanges |-> EmptyExchanges]}
                \cup {[client |-> 1, params |-> FrameLine, conns |-> <<"open">>,
                       exchanges |-> e] : e \in ReplayedExchanges} :
         /\ client = s.client
         /\ params = s.params
         /\ conns = s.conns
         /\ exchanges = s.exchanges
    /\ limit = NoLimit
    /\ pc = "idle"
    /\ messages = <<>>
    /\ idx = 0
    /\ error_count = 0
    /\ pidx = 0
    /\ chk = NoChk
    /\ last = NoReport
    /\ runlog = <<>>
    /\ held = <<>>
    /\ cidx = 0
    /\ ridx = 0
    /\ nrel = 0
    /\ plog = NoLog
    /\ test = NoTest
    /\ out = NoOut
    /\ inbox = <<>>

NextFrame ==
    \/ Disconnect
    \/ ConnectionProbeStart
    \/ ConnectionProbeOpen
    \/ ConnectionProbeRelease
    \/ ChannelProbe
    \/ ScanStart
    \/ ScanStep
    \/ ReplayStart

\* a started replay is followed up to its liveness check; the loop of
\* __send_messages is followed in Spec
SpecFrame == InitFrame /\ [][NextFrame]_vars

---------------------------------------------------------------------------
(* The engine against an endpoint that answers every message it receives   *)
(* exactly once, in the order it received them                             *)

\* the answer of the endpoint to msg
Answer(msg) == "re:" \o msg

\* "T" * idx, named by its length
ProbeMessage(size) == "T*" \o ToString(size)

\* handle.send(msg): the endpoint receives msg and its answer joins the
\* answers not read yet
EchoSend(q, msg) == Append(q, Answer(msg))

\* handle.send(msg) followed by handle.recv(): recv returns the oldest answer
\* not read yet
EchoIO(q, msg) == [send |-> "ok", recv |-> "text", text |-> Head(EchoSend(q, msg))]

\* the answers left unread after handle.send(msg) and handle.recv()
EchoRest(q, msg) == Tail(EchoSend(q, msg))

\* __check_connection_availability() from client c, saved parameters p, handles
\* cs and unread answers q: do_connect(p) when c is None (a new connection has
\* nothing unread, and the answer to "hello" is read), the keep-alive send and
\* recv otherwise; the endpoint never closes, so nothing is raised
EchoCheck(c, p, cs, q) ==
    IF c = NoClient
    THEN LET r == DoConnect(c, p, cs, p, IF MissingParameters(p) THEN "skip" ELSE "ok",
                            EchoIO(<<>>, Hello))
         IN  [client |-> r.client, params |-> r.params, conns |-> r.conns,
              inbox |-> IF r.client = c THEN q ELSE EchoRest(<<>>, Hello)]
    ELSE [client |-> c, params |-> p, conns |-> cs, inbox |-> EchoRest(q, KeepAlive)]

\* the endpoint accepts every handshake; the model stops at MaxHandles handles
CanCheck == client # NoClient \/ MissingParameters(params) \/ Len(conns) < MaxHandles

\* the loop of __send_messages from message number i, from the engine state s
\* (client, params, conns, inbox), the exchanges e and error_count errors
RECURSIVE EchoSendMessages(_, _, _, _, _, _)
EchoSendMessages(s, msgs, i, e, errors, t) ==
    IF i >= Len(msgs)
    THEN [client |-> s.client, params |-> s.params, conns |-> s.conns, inbox |-> s.inbox,
          exchanges |-> e, errors |-> errors]
    ELSE LET r == EchoCheck(s.client, s.params, s.conns, s.inbox)
             msg == msgs[i + 1]
         IN  IF r.client = NoClient
             THEN EchoSendMessages(r, msgs, NextIdx(i),
                                   Put(e, i, ExchangeOf(msg, [kind |-> "error", text |-> AttributeText], t)),
                                   CountError(errors), t)
             ELSE EchoSendMessages([r EXCEPT !.inbox = EchoRest(r.inbox, msg)], msgs, NextIdx(i),
                                   Put(e, i, ExchangeOf(msg, [kind |-> "ok",
                                                              text |-> EchoIO(r.inbox, msg).text], t)),
                                   CountNothing(errors), t)

\* the sends of the length probe from size i on: nothing is received
RECURSIVE EchoProbeSends(_, _)
EchoProbeSends(q, i) ==
    IF ~InRange(i) THEN q ELSE EchoProbeSends(EchoSend(q, ProbeMessage(i)), i + ProbeStep)

\* do_connect(line) to the answering endpoint
EchoConnect ==
    /\ pc = "idle"
    /\ Len(conns) < MaxHandles
    /\ \E line \in Lines :
         LET r == DoConnect(client, params, conns, line, "ok", EchoIO(<<>>, Hello))
         IN  /\ client' = r.client
             /\ params' = r.params
             /\ conns' = r.conns
             /\ inbox' = EchoRest(<<>>, Hello)
             /\ last' = Report("connect", r.result)
    /\ chk' = NoChk
    /\ UNCHANGED <<exchanges, limit, pc, messages, idx, error_count, pidx, runlog>>
    /\ UNCHANGED probeVars

\* do_disconnect(line), the close() returning
EchoDisconnect ==
    /\ pc = "idle"
    /\ IF client = NoClient
       THEN /\ last' = Report("disconnect", "nothing")
            /\ UNCHANGED <<client, conns>>
       ELSE /\ conns' = MarkClosed(conns, client)
            /\ client' = NoClient
            /\ last' = Report("disconnect", "closed")
    /\ chk' = NoChk
    /\ UNCHANGED <<params, exchanges, limit, pc, messages, idx, error_count, pidx, runlog,
                   inbox>>
    /\ UNCHANGED probeVars

\* do_probe_request_length_limit(line) against the answering endpoint, which
\* accepts every length: the check, then the sends of the whole range
EchoProbeLength ==
    /\ pc = "idle"
    /\ CanCheck
    /\ LET r == EchoCheck(client, params, conns, inbox)
       IN  /\ client' = r.client
           /\ params' = r.params
           /\ conns' = r.conns
           /\ IF r.client = NoClient
              THEN /\ last' = Report("probe_length", "failed")
                   /\ inbox' = r.inbox
              ELSE /\ Len(EchoProbeSends(r.inbox, ProbeStart)) <= MaxPending
                   /\ last' = Report("probe_length", LengthOutcome(0))
                   /\ inbox' = EchoProbeSends(r.inbox, ProbeStart)
    /\ chk' = NoChk
    /\ UNCHANGED <<exchanges, limit, pc, messages, idx, error_count, pidx, runlog>>
    /\ UNCHANGED probeVars

\* do_replay / do_fuzz from the liveness check on, with the message list msgs
EchoRun(op, msgs, t) ==
    LET r == EchoCheck(client, params, conns, inbox)
        f == EchoSendMessages(r, msgs, 0, ClearExchanges(exchanges), 0, t)
    IN  /\ client' = f.client
        /\ params' = f.params
        /\ conns' = f.conns
        /\ inbox' = f.inbox
        /\ exchanges' = f.exchanges
        /\ messages' = msgs
        /\ idx' = Len(msgs)
        /\ error_count' = f.errors
        /\ last' = [Report(op, "sent") EXCEPT !.n = Len(msgs), !.errors = f.errors]

\* do_replay(line) against the answering endpoint
EchoReplay ==
    /\ pc = "idle"
    /\ CanCheck
    /\ \E m \in Messages, n \in 0..MaxRun, t \in Times : EchoRun("replay", Repeat(m, n), t)
    /\ chk' = NoChk
    /\ UNCHANGED <<limit, pc, pidx, runlog>>
    /\ UNCHANGED probeVars

\* do_fuzz(line) against the answering endpoint
EchoFuzz ==
    /\ pc = "idle"
    /\ CanCheck
    /\ \E msgs \in FuzzMessageLists, t \in Times : EchoRun("fuzz", msgs, t)
    /\ chk' = NoChk
    /\ UNCHANGED <<limit, pc, pidx, runlog>>
    /\ UNCHANGED probeVars

NextEcho ==
    \/ EchoConnect
    \/ EchoDisconnect
    \/ EchoProbeLength
    \/ EchoReplay
    \/ EchoFuzz

SpecEcho == Init /\ [][NextEcho]_vars

---------------------------------------------------------------------------
(* Claims *)

OpenHandles == {h \in DOMAIN conns : conns[h] = "open"}

\* C1: a connect attempt that fails (handshake error, or an error or missing
\* response on the "hello" send-receive) leaves the client handle and the
\* saved parameters as they were before the attempt.
C1_FailedConnectLeavesState ==
    [][(last'.op = "connect" /\ last'.outcome \in {"failed", "unconfirmed"})
         => (client' = client /\ params' = params)]_vars

\* C2: at most one handle opened as the primary connection is open at any
\* time: a connect or reconnect never leaves the handle it replaces open.
C2_AtMostOnePrimaryOpen == Cardinality(OpenHandles) <= 1

\* C3: with no connection and no saved parameters the liveness check raises,
\* so replay, fuzz and the length probe stop at it: nothing is sent and the
\* exchanges stay as they were.
C3_NotConnectedStops ==
    [][(pc = "idle" /\ client = NoClient /\ params = NoParams
          /\ chk'.site \in {"replay", "fuzz", "probe_length"})
         => (chk'.raised # "no" /\ pc' = "idle" /\ exchanges' = exchanges)]_vars

\* C4: the liveness check attempts a connect exactly when there is no
\* connection and parameters are saved, or when the keep-alive reports the
\* connection closed; on another keep-alive error it attempts none and raises.
C4_ReconnectTrigger ==
    chk.site # "none" =>
        /\ chk.attempted <=> ((~chk.had /\ chk.saved) \/ chk.probe = "closed")
        /\ chk.probe = "err" => (~chk.attempted /\ chk.raised # "no")

\* C5: a reconnect that fails inside the liveness check is raised to the
\* caller: the check does not return normally after it.
C5_ReconnectFailurePropagates ==
    (chk.attempted /\ chk.connres \in {"failed", "unconfirmed"}) => chk.raised # "no"

\* C6: after disconnect returns the engine holds no connection, whether or
\* not close raised.
C6_DisconnectClears == last.op = "disconnect" => client = NoClient

RunOver == last.op \in {"replay", "fuzz"} /\ last.outcome \in {"sent", "aborted"}

Flagged == {i \in DOMAIN exchanges : exchanges[i].IS_ERROR}

C8_RunRepopulates ==
    (last.op \in {"replay", "fuzz"} /\ last.outcome = "sent") =>
        /\ last.n = Len(messages)
        /\ DOMAIN exchanges = 0..(last.n - 1)
        /\ \A i \in DOMAIN exchanges : exchanges[i].REQUEST = messages[i + 1]

\* C8 witness: a completed run shorter than the one before it
C8_Witness ==
    /\ last.op \in {"replay", "fuzz"}
    /\ last.outcome = "sent"
    /\ last.n >= 1
    /\ last.prev > last.n

LengthProbeOver ==
    last.op = "probe_length" /\ last.outcome \in {"identified", "undetermined", "failed"}

\* the first probe size the transport refuses, and the largest one below limit
FirstRefused(l) == ProbeStep * ((l + ProbeStep - 1) \div ProbeStep)
LargestBelow(l) == ProbeStep * ((l - 1) \div ProbeStep)

\* C9 as stated: for every limit L with 10 < L <= ceiling, the probe, started
\* on a live connection, reports the largest multiple of 10 below L.
C9_AsStated ==
    (LengthProbeOver /\ last.live /\ limit > ProbeStart /\ limit <= MaxProbingLimit) =>
        (last.outcome = "identified" /\ last.max = LargestBelow(limit))

\* C9 amended: started on a live connection against a transport that refuses
\* exactly the messages of L characters or more, L > 10, the probe reports
\* the largest multiple of 10 below L when a probe size of L or more lies
\* below the ceiling, and reports the limit as undetermined otherwise.
C9_ConfirmedMaximum ==
    (LengthProbeOver /\ last.live /\ limit > ProbeStart) =>
        IF InRange(FirstRefused(limit))
        THEN last.outcome = "identified" /\ last.max = LargestBelow(limit)
                /\ last.failedAt = FirstRefused(limit)
        ELSE last.outcome = "undetermined" /\ last.failedAt = 0

\* C9 witness: a limit found after more than one probe message went through
C9_Witness ==
    /\ LengthProbeOver
    /\ last.live
    /\ limit % ProbeStep # 0
    /\ last.outcome = "identified"
    /\ last.max >= 2 * ProbeStep

\* C10: the probe reports "undetermined" if and only if no probe send
\* failed; a failure of the very first send is reported as a confirmed
\* maximum of 0.
C10_UndeterminedIffNoFailure ==
    (last.op = "probe_length" /\ last.outcome \in {"identified", "undetermined"}) =>
        /\ last.outcome = "undetermined" <=> last.failedAt = 0
        /\ last.failedAt = ProbeStart => (last.outcome = "identified" /\ last.max = 0)

\* C11: against a transport whose k-th open call is the first to fail, the
\* connection probe reports the confirmed maximum k - 1 and makes no open call
\* after that failure
C11_FirstFailureReportsMaximum ==
    (/\ last.op = "probe_connections"
     /\ pc \in {"releasing", "idle"}
     /\ last.outcome # "failed"
     /\ last.failedAt > 0)
    => /\ last.outcome = "identified"
       /\ last.max = last.failedAt - 1
       /\ plog.opens = last.failedAt

\* the connection probe has returned after its growth loop stopped
GrowthStopped ==
    /\ last.op = "probe_connections"
    /\ pc = "idle"
    /\ last.outcome \in {"identified", "undetermined"}

\* C12: after the growth loop stops, a close is attempted on every held
\* connection whichever closes fail; a failed close is counted, is not raised
\* out of the release loop, and the reported count of failures is the number
\* of failed closes
C12_ReleaseCountsEveryFailure ==
    GrowthStopped
    => /\ plog.release = "done"
       /\ \A i \in DOMAIN held : held[i] # "open"
       /\ last.errors = Cardinality({i \in DOMAIN held : held[i] = "failed"})

\* C13: whenever the connection probe returns after it started to open
\* connections, a close has been attempted on every connection it opened
C13_DrainsOnEveryExit ==
    (/\ last.op = "probe_connections"
     /\ pc = "idle"
     /\ last.outcome # "no_context")
    => \A i \in DOMAIN held : held[i] # "open"

\* C14: while the growth loop runs no held connection has been closed: at
\* the idx-th open call the idx - 1 connections opened before are all open,
\* so the first close comes after the last open call
C14_NoCloseDuringGrowth ==
    pc = "growing"
    => /\ Len(held) = cidx - 1
       /\ plog.opens = cidx - 1
       /\ \A i \in DOMAIN held : held[i] = "open"

\* the growth loop is about to make its third open call
C14_Witness == pc = "growing" /\ Len(held) = 2 /\ InGrowthRange(cidx)

\* C15: without saved connection parameters (no connect has succeeded: only
\* a successful connect saves them) the connection probe and the channel
\* probe report that no connection context exists and make no handshake
C15_ProbesNeedContext ==
    [][/\ params' # params => (last'.op = "connect" /\ last'.outcome = "connected")
       /\ (params = NoParams /\ last'.op \in {"probe_connections", "probe_channels"})
          => (/\ last'.outcome = "no_context"
              /\ plog'.opens = 0
              /\ pc' = "idle"
              /\ held' = <<>>
              /\ test' = NoTest)]_vars

\* the connection probe was invoked before any successful connect
C15_Witness ==
    /\ params = NoParams
    /\ last.op = "probe_connections"
    /\ last.outcome = "no_context"
    /\ Len(conns) > 0

RECURSIVE Product(_)
\* c_1 * ... * c_k for files of c_1 .. c_k lines
Product(files) == IF files = <<>> THEN 1 ELSE Len(Head(files)) * Product(Tail(files))

\* the keys payload_1 .. payload_k
PlaceholderKeys(k) == {PlaceholderKey(i) : i \in 1..k}

\* C16: for k >= 1 payload files of c_1 .. c_k lines (zero-line files
\* included) the combinator yields c_1 * ... * c_k bindings, each with
\* exactly the keys payload_1 .. payload_k
C16_ProductOfLineCounts ==
    (out.op = "combine" /\ out.done /\ Len(out.files) >= 1)
    => /\ Len(out.bindings) = Product(out.files)
       /\ \A n \in DOMAIN out.bindings :
             DOMAIN out.bindings[n] = PlaceholderKeys(Len(out.files))

\* the line position (from 0) of file i in the m-th tuple (from 0) of the
\* lexicographic enumeration with the first file most significant
Digit(files, i, m) ==
    (m \div Product(SubSeq(files, i + 1, Len(files)))) % Len(files[i])

\* the n-th binding of that enumeration
LexBinding(files, n) ==
    [key \in PlaceholderKeys(Len(files)) |->
        LET i == CHOOSE i \in 1..Len(files) : PlaceholderKey(i) = key
        IN  files[i][Digit(files, i, n - 1) + 1]]

\* C17: the bindings come in lexicographic order of line positions, the
\* first file most significant, and the messages of fuzz are the template
\* substituted with the bindings in that order
C17_LexicographicOrder ==
    (out.op = "combine" /\ out.done /\ Len(out.files) >= 1)
    => \A n \in 1..Product(out.files) :
          /\ n \in DOMAIN out.bindings
          /\ out.bindings[n] = LexBinding(out.files, n)
          /\ n \in DOMAIN out.messages
          /\ out.messages[n] = SafeSubstitute(CombineTemplate, LexBinding(out.files, n))

\* files [x, y] and [1, 2] gave (x,1), (x,2), (y,1), (y,2)
C17_Witness ==
    /\ out.op = "combine"
    /\ out.done
    /\ out.files = <<(<<"x", "y">>), (<<"1", "2">>)>>
    /\ out.bindings = <<("payload_1" :> "x") @@ ("payload_2" :> "1"),
                        ("payload_1" :> "x") @@ ("payload_2" :> "2"),
                        ("payload_1" :> "y") @@ ("payload_2" :> "1"),
                        ("payload_1" :> "y") @@ ("payload_2" :> "2")>>
    /\ out.messages = <<"x-1-$payload_3", "x-2-$payload_3", "y-1-$payload_3", "y-2-$payload_3">>

\* C18: on an empty list of payload files the combinator yields one binding,
\* the empty one
C18_EmptyListOneBinding ==
    (out.op = "combine" /\ out.done /\ out.files = <<>>)
    => out.bindings = << <<>> >>

\* a sequence of numbers in ascending order, none twice
Ascending(q) == \A a, b \in DOMAIN q : a < b => q[a] < q[b]

\* C19: the timing aggregation lists the distinct whole-second keys in
\* ascending order, whatever the order in which they first occur, each with
\* the ascending list of exactly the exchanges whose response time truncates
\* to the key
C19_TimingKeysAscending ==
    (out.op = "analyze" /\ last.outcome = "printed")
    => /\ Ascending([n \in DOMAIN out.timing |-> out.timing[n].key])
       /\ {out.timing[n].key : n \in DOMAIN out.timing}
             = {IntTime(exchanges[i].RESPONSE_TIME) : i \in DOMAIN exchanges}
       /\ \A n \in DOMAIN out.timing :
             /\ Ascending(out.timing[n].ids)
             /\ {out.timing[n].ids[j] : j \in DOMAIN out.timing[n].ids}
                   = {i \in DOMAIN exchanges :
                        IntTime(exchanges[i].RESPONSE_TIME) = out.timing[n].key}

\* the channel probe ran with a connection context and met no error other
\* than the transport's
ChannelProbed ==
    /\ last.op = "probe_channels"
    /\ last.outcome # "no_context"
    /\ test.hs # "other"

\* the test connection answered the "hello" with a text that is not empty
UsableResponse ==
    /\ test.hs = "ok"
    /\ Raised(test.io) = "no"
    /\ test.io.recv = "text"
    /\ test.io.text # ""

\* C20: the channel probe makes one handshake attempt and reports
\* "supported" exactly when the handshake succeeded and a non-empty response
\* came back, "unresponsive" when the handshake succeeded and the response
\* was absent or empty, "unsupported" when the handshake or the send / recv
\* raised a transport error
C20_ThreeObservations ==
    ChannelProbed
    => /\ plog.opens = 1
       /\ last.outcome \in {"supported", "unresponsive", "unsupported"}
       /\ last.outcome = "supported" <=> UsableResponse
       /\ last.outcome = "unsupported" <=> (test.hs = "err" \/ Raised(test.io) # "no")

\* C21: analyze and search change neither the exchanges, nor the primary
\* connection, nor the saved parameters, and a search repeated with the same
\* words and option over the same exchanges reports the same rows
C21_PureReads ==
    [][/\ last'.op \in {"analyze", "search"}
          => (/\ exchanges' = exchanges
              /\ client' = client
              /\ params' = params
              /\ conns' = conns)
       /\ (out'.op = "search" /\ out'.again)
          => (out'.found = out.found /\ last'.outcome = last.outcome)]_vars

\* the same search ran twice on a connected engine and found something
C21_Witness ==
    /\ out.op = "search"
    /\ out.again
    /\ out.found # <<>>
    /\ client # NoClient
    /\ \E n \in DOMAIN out.found : Len(out.found[n].ids) = 2

\* the exchanges whose response text contains the decoded word
Matching(word) == {i \in DOMAIN exchanges : Matches(exchanges, i, word, out.ci)}

\* C23: for every word given to search, the exchange numbers reported for
\* it are exactly the ascending list of the exchanges whose response text
\* (the error text of a failed exchange) contains the percent-decoded word,
\* both lower-cased under -i
C23_SearchResult ==
    (out.op = "search" /\ last.outcome = "found")
    => /\ \A n \in DOMAIN out.found :
             /\ \E k \in DOMAIN out.words : out.words[k] = out.found[n].key
             /\ Ascending(out.found[n].ids)
             /\ {out.found[n].ids[j] : j \in DOMAIN out.found[n].ids}
                   = Matching(out.found[n].key)
       /\ \A k \in DOMAIN out.words :
             Matching(out.words[k]) # {}
             => \E n \in DOMAIN out.found : out.found[n].key = out.words[k]

\* C22: in __send_messages every message, taken in list order, has the
\* check first, then at most one send of that message, then at most one
\* recv; the exchanges of all earlier messages are recorded before it and
\* its own exchange right after it; a message whose check raised is not sent
\* and is recorded as an error
C22_DriverOrdering ==
    chk.site = "send_messages"
    => /\ chk.events \in {<<"check">>, <<"check", "send">>, <<"check", "send", "recv">>}
       /\ DOMAIN exchanges = 0..chk.at
       /\ exchanges[chk.at].REQUEST = messages[chk.at + 1]
       /\ chk.raised # "no" => (chk.events = <<"check">> /\ exchanges[chk.at].IS_ERROR)
       /\ chk.events # <<"check", "send", "recv">> => exchanges[chk.at].IS_ERROR
       /\ idx \in {chk.at, chk.at + 1}

\* the second message of a run was checked, sent and answered after the first
\* one had failed
C22_Witness ==
    /\ chk.site = "send_messages"
    /\ chk.at = 1
    /\ chk.events = <<"check", "send", "recv">>
    /\ exchanges[0].IS_ERROR
    /\ ~exchanges[1].IS_ERROR

\* the endpoint starts with the secure scheme, in any letter case
IsSecure(endpoint) == StartsWith(Lower(SubSeq(endpoint, 1, Len(Wss))), Wss)

\* the endpoint with its scheme replaced by the other one and nothing else touched
Complement(endpoint) ==
    IF IsSecure(endpoint)
    THEN Ws \o SubSeq(endpoint, Len(Wss) + 1, Len(endpoint))
    ELSE Wss \o SubSeq(endpoint, Len(Ws) + 1, Len(endpoint))

\* C24: the channel probe tests the saved endpoint with the complementary
\* scheme (wss, in any letter case, gives ws; ws gives wss) and with host,
\* port and path unchanged, letter case and later 'ws://' or 'wss://' included
C24_ComplementaryScheme ==
    (out.op = "target" /\ out.done) => out.target = Complement(out.endpoint)

\* the ports a specification names, start through end for a range
NamedPorts(spec) ==
    IF spec.kind = "range" THEN spec.ports[1]..spec.ports[2]
    ELSE {spec.ports[k] : k \in DOMAIN spec.ports}

\* C25: a scan that met transport failures only has attempted a handshake
\* with ws:// and with wss:// on every port its specification names, the end
\* of a start-end range included
C25_ScanCoverage ==
    (last.op = "scan" /\ last.outcome = "done")
    => \A port \in NamedPorts(out.spec) :
          \A k \in DOMAIN Protocols :
             \E n \in DOMAIN out.attempts :
                out.attempts[n].port = port /\ out.attempts[n].protocol = Protocols[k]

\* the step saved the parameters of the connection it opened: do_connect ended
\* "connected", at the prompt or inside the liveness check
SavedOnOpen ==
    \/ last.op = "connect" /\ last.outcome = "connected"
    \/ chk.connres = "connected"

\* C26: whenever the engine holds a primary handle, saved connection
\* parameters exist, and a step that installs a new handle saves the
\* parameters the handle was opened with
C26_HandleHasItsParameters ==
    [][ /\ client' # NoClient => params' # NoParams
        /\ (client' # client /\ client' # NoClient) => SavedOnOpen' ]_vars

\* C28: when the channel probe has returned, the transport handle it opened
\* for the test is not left open
C28_ChannelProbeClosesTest ==
    last.op = "probe_channels" => test.state # "open"

\* a replay or fuzz invocation ended before __send_messages was called
FailedStart == last.op \in {"replay", "fuzz"} /\ last.outcome \in {"missing", "failed"}

\* C29: a replay or fuzz invocation that fails before sending starts (missing
\* parameters, unreadable file, error raised by the initial liveness check)
\* leaves the recorded exchanges exactly as they were
C29_FailedStartKeepsExchanges ==
    [][ (pc = "idle" /\ FailedStart') => exchanges' = exchanges ]_vars

\* a start failed on an error raised by the liveness check while exchanges of
\* an earlier run were recorded
C29_Witness ==
    /\ FailedStart
    /\ chk.raised # "no"
    /\ exchanges # EmptyExchanges

\* C27: against an endpoint that answers every message exactly once and in
\* order, every exchange recorded without the error flag holds, as its
\* response, the answer to its own request, also in runs made after a
\* message-length probe
C27_ResponsesAnswerRequests ==
    \A i \in DOMAIN exchanges :
       exchanges[i].IS_ERROR = FALSE => exchanges[i].RESPONSE = Answer(exchanges[i].REQUEST)

\* the step belongs to the connection-count probe, the channel probe or the
\* port scan
ProbeOrScan == last.op \in {"probe_connections", "probe_channels", "scan"}

\* the step was a replay that made its liveness check without a primary
\* handle and with saved parameters
ReplayWithoutHandle ==
    last.op = "replay" /\ chk.site = "replay" /\ ~chk.had /\ chk.saved

\* C30: the connection-count probe, the channel probe and the port scan leave
\* the primary handle, the saved parameters and the recorded exchanges
\* unchanged on every outcome; disconnect leaves the saved parameters and the
\* recorded exchanges unchanged, so that a replay made after a disconnect
\* that left saved parameters attempts a handshake with them and keeps them
C30_ProbesAndDisconnectFrame ==
    [][ /\ ProbeOrScan' =>
             client' = client /\ params' = params /\ exchanges' = exchanges
        /\ (pc = "idle" /\ last'.op = "disconnect") =>
             params' = params /\ exchanges' = exchanges
        /\ (pc = "idle" /\ last.op = "disconnect" /\ last.outcome = "closed"
            /\ params # NoParams /\ last'.op = "replay" /\ chk'.site = "replay") =>
             ReplayWithoutHandle' /\ chk'.attempted /\ params' = params ]_vars

\* after a scan ran beside a primary connection, a replay made after a
\* disconnect has opened a new primary connection from the saved parameters
C30_Witness ==
    /\ ReplayWithoutHandle
    /\ chk.connres = "connected"
    /\ client # NoClient
    /\ params # NoParams
    /\ out.op = "scan"
    /\ Len(out.attempts) > 0

====
